---- MODULE Spec2Model ----
(***************************************************************************)
(* ts.performance (src/src/compiler/performance.ts): the compiler's        *)
(* process-wide performance instrumentation: marks, counts, measures,      *)
(* reentrant Timers and the trace-event output.                            *)
(*                                                                         *)
(* Every exported function is an operator from a record s of the module    *)
(* state to the record after the call, so that a function that calls       *)
(* another (Timer.exit -> mark, measure -> logSlowEvent -> ...) is the     *)
(* composition the source writes.  One action per exported function        *)
(* applies its operator to the current state.                              *)
(*                                                                         *)
(* Spec is the whole program (any caller, any operation).  The properties  *)
(* are checked under specifications of one kind of host each, whose state  *)
(* spaces TLC exhausts: SpecFacility (recording and queries), SpecTimer    *)
(* (one Timer and direct marks), SpecDisable (one Timer, marks and         *)
(* measures), SpecTimers (two Timers sharing mark names), SpecTrace        *)
(* (direct trace events), SpecSlow (slow events), SpecDepth (log depth),   *)
(* SpecIfFalse (Timers of createTimerIf(false)) and SpecHook (the host's   *)
(* profiler callback).                                                     *)
(***************************************************************************)
EXTENDS Integers, Sequences, FiniteSets, TLC

\* ---------------------------------------------------------------- bounds
MaxTime == 11       \* the clock stops advancing here
MaxCount == 2       \* cap on the mark calls recorded between two enable() calls
MaxMeasures == 2    \* cap on the measure calls recorded between two enable() calls
MaxOut == 3         \* cap on the number of console lines
MaxCalls == 2       \* cap on enter() calls and on exit() calls per Timer
MaxDepth == 1       \* cap on the absolute value of logDepth

\* ------------------------------------------------------ program constants
SlowThreshold == 10     \* logSlowEvent: durationMillis > 10
RandRange == 10000      \* logSlowEvent: Math.floor(Math.random() * 10000)

\* ------------------------------------------------------------ input sets
MarkNames == {"a", "b"}
MeasureNames == {"m"}
NoName == "<undefined>"                 \* an optional argument left out
OptMarkNames == MarkNames \cup {NoName}
TickSteps == {5, 11}                    \* the clock's possible advances
Rands == {0, RandRange - 1}             \* values of the random suffix
Durations == {0 - 1, SlowThreshold, SlowThreshold + 1}
NoArgs == "<undefined>"
ArgsValues == {NoArgs, "args"}
Timers == {"t1", "t2"}

\* The (measureName, startMarkName, endMarkName) a Timer was created with.
TimerDef(t) ==
    IF t = "t1" THEN [measureName |-> "m", startMarkName |-> "a", endMarkName |-> "b"]
                ELSE [measureName |-> "m", startMarkName |-> "b", endMarkName |-> "a"]

VARIABLES
    now,              \* the value timestamp() returns
    enabled,          \* let enabled
    profilerStart,    \* let profilerStart
    counts,           \* let counts: Map<number>, Undefined before enable()
    marks,            \* let marks
    measures,         \* let measures
    logDepth,         \* let logDepth
    isFirstLogEvent,  \* let isFirstLogEvent
    onProfilerEvent,  \* the host's global is a function with profiler === true
    profilerEvent,    \* TRUE: the host's onProfilerEvent, FALSE: the empty function
    enterCount,       \* each Timer's closure variable enterCount
    out,              \* the lines written by console.log
    last,             \* the most recent step and what it did
    markCalls,        \* history: mark(name) calls run while enabled since enable()
    measureCalls,     \* history: measure(name) calls run while enabled since enable()
    deltaSum,         \* history: sum of (end - start) of measure(name) since enable()
    enters,           \* history: enter() calls per Timer
    exits,            \* history: exit() calls per Timer
    failed,           \* history: the Timer has raised Debug.fail
    netDepth          \* history: increaseLogDepth() calls minus decreaseLogDepth() calls

vars == <<now, enabled, profilerStart, counts, marks, measures, logDepth,
          isFirstLogEvent, profilerEvent, enterCount, out, last, markCalls,
          measureCalls, deltaSum, enters, exits, failed, onProfilerEvent,
          netDepth>>

\* ------------------------------------------------------------------ maps
\* A Map<number> is a function whose domain is the set of its keys.  A
\* variable declared and not yet assigned holds Undefined.
Undefined == [undefined |-> TRUE]
IsUndefined(map) == "undefined" \in DOMAIN map
createMap == [k \in {} |-> 0]
Has(map, key) == key \in DOMAIN map
MapSet(map, key, value) ==
    [k \in DOMAIN map \cup {key} |-> IF k = key THEN value ELSE map[k]]
\* map.get(key) || dflt : a missing key and a stored 0 both give dflt
GetOr(map, key, dflt) ==
    IF Has(map, key) /\ map[key] # 0 THEN map[key] ELSE dflt

\* The module state an operation starts from, with the logs of this call.
Cur ==
    [enabled |-> enabled, profilerStart |-> profilerStart, counts |-> counts,
     marks |-> marks, measures |-> measures, logDepth |-> logDepth,
     isFirstLogEvent |-> isFirstLogEvent, enterCount |-> enterCount,
     out |-> out,
     calls |-> <<>>,      \* mark/measure calls made, in order
     hook |-> <<>>,       \* names the profiler hook was invoked with
     added |-> <<>>,      \* <<measureName, start, end>> of each measure recorded
     raised |-> FALSE]    \* the call ended by throwing

\* ------------------------------------------------------------- functions
\* Debug.fail(message): throws.
DebugFail(s) == [s EXCEPT !.raised = TRUE]

\* logTraceEvent never clearing isFirstLogEvent
logTraceEvent_repeatsBracket(s, data) ==
    LET s1 == IF s.isFirstLogEvent
              THEN [s EXCEPT !.out = Append(@, [line |-> "["])]
              ELSE s
    IN [s1 EXCEPT !.out = Append(@, [line |-> "record", data |-> data])]

\* logTraceEvent writing only while the facility is enabled
logTraceEvent_gated(s, data) ==
    IF s.enabled
    THEN LET s1 == IF s.isFirstLogEvent
                   THEN [s EXCEPT !.out = Append(@, [line |-> "["]),
                                  !.isFirstLogEvent = FALSE]
                   ELSE s
         IN [s1 EXCEPT !.out = Append(@, [line |-> "record", data |-> data])]
    ELSE s

\* console.log("  " + JSON.stringify(data) + ",") preceded once by console.log("[")
logTraceEvent(s, data) ==
    LET s1 == IF s.isFirstLogEvent
              THEN [s EXCEPT !.out = Append(@, [line |-> "["]),
                             !.isFirstLogEvent = FALSE]
              ELSE s
    IN [s1 EXCEPT !.out = Append(@, [line |-> "record", data |-> data])]

logCompleteEvent(s, name, durationMillis, args) ==
    LET base == [name |-> name, cat |-> "build", ph |-> "X", pid |-> 1,
                 tid |-> s.logDepth,
                 ts |-> (now - durationMillis) * 1000,
                 dur |-> durationMillis * 1000]
    IN logTraceEvent(s, IF args # NoArgs THEN base @@ [args |-> args] ELSE base)

\* logSlowEvent with >= for >
logSlowEvent_atLeast(s, name, durationMillis, args, rand) ==
    IF durationMillis >= SlowThreshold
    THEN logCompleteEvent(s, <<name, rand>>, durationMillis, args)
    ELSE s

logSlowEvent(s, name, durationMillis, args, rand) ==
    IF durationMillis > SlowThreshold
    THEN logCompleteEvent(s, <<name, rand>>, durationMillis, args)
    ELSE s

\* mark without the test of enabled
mark_unguarded(s, markName) ==
    LET c == [s EXCEPT !.calls = Append(@, <<"mark", markName>>)]
        s1 == [c EXCEPT !.marks = MapSet(@, markName, now)]
        s2 == [s1 EXCEPT !.counts =
                  MapSet(@, markName, GetOr(s1.counts, markName, 0) + 1)]
    IN IF profilerEvent THEN [s2 EXCEPT !.hook = Append(@, markName)] ELSE s2

\* mark without the call of profilerEvent
mark_nohook(s, markName) ==
    LET c == [s EXCEPT !.calls = Append(@, <<"mark", markName>>)]
    IN IF c.enabled
       THEN LET s1 == [c EXCEPT !.marks = MapSet(@, markName, now)]
            IN [s1 EXCEPT !.counts =
                   MapSet(@, markName, GetOr(s1.counts, markName, 0) + 1)]
       ELSE c

\* mark storing 1 instead of the incremented count
mark_noincrement(s, markName) ==
    LET c == [s EXCEPT !.calls = Append(@, <<"mark", markName>>)]
    IN IF c.enabled
       THEN LET s1 == [c EXCEPT !.marks = MapSet(@, markName, now)]
                s2 == [s1 EXCEPT !.counts = MapSet(@, markName, 1)]
            IN IF profilerEvent THEN [s2 EXCEPT !.hook = Append(@, markName)]
                                ELSE s2
       ELSE c

mark(s, markName) ==
    LET c == [s EXCEPT !.calls = Append(@, <<"mark", markName>>)]
    IN IF c.enabled
       THEN LET s1 == [c EXCEPT !.marks = MapSet(@, markName, now)]
                s2 == [s1 EXCEPT !.counts =
                          MapSet(@, markName, GetOr(s1.counts, markName, 0) + 1)]
            IN IF profilerEvent THEN [s2 EXCEPT !.hook = Append(@, markName)]
                                ELSE s2
       ELSE c

\* measure adding (start - end)
measure_swapped(s, measureName, startMarkName, endMarkName, rand) ==
    LET c == [s EXCEPT !.calls =
                 Append(@, <<"measure", measureName, startMarkName, endMarkName>>)]
    IN IF c.enabled
       THEN LET end == IF endMarkName # NoName
                       THEN GetOr(c.marks, endMarkName, now) ELSE now
                start == IF startMarkName # NoName
                         THEN GetOr(c.marks, startMarkName, c.profilerStart)
                         ELSE c.profilerStart
                s1 == [c EXCEPT !.measures =
                          MapSet(@, measureName,
                                 GetOr(c.measures, measureName, 0) + (start - end)),
                                !.added = Append(@, <<measureName, start, end>>)]
            IN logSlowEvent(s1, measureName, end - start, NoArgs, rand)
       ELSE c

\* measure storing the latest delta instead of the sum
measure_replace(s, measureName, startMarkName, endMarkName, rand) ==
    LET c == [s EXCEPT !.calls =
                 Append(@, <<"measure", measureName, startMarkName, endMarkName>>)]
    IN IF c.enabled
       THEN LET end == IF endMarkName # NoName
                       THEN GetOr(c.marks, endMarkName, now) ELSE now
                start == IF startMarkName # NoName
                         THEN GetOr(c.marks, startMarkName, c.profilerStart)
                         ELSE c.profilerStart
                s1 == [c EXCEPT !.measures = MapSet(@, measureName, end - start),
                                !.added = Append(@, <<measureName, start, end>>)]
            IN logSlowEvent(s1, measureName, end - start, NoArgs, rand)
       ELSE c

measure(s, measureName, startMarkName, endMarkName, rand) ==
    LET c == [s EXCEPT !.calls =
                 Append(@, <<"measure", measureName, startMarkName, endMarkName>>)]
    IN IF c.enabled
       THEN LET end == IF endMarkName # NoName
                       THEN GetOr(c.marks, endMarkName, now) ELSE now
                start == IF startMarkName # NoName
                         THEN GetOr(c.marks, startMarkName, c.profilerStart)
                         ELSE c.profilerStart
                s1 == [c EXCEPT !.measures =
                          MapSet(@, measureName,
                                 GetOr(c.measures, measureName, 0) + (end - start)),
                                !.added = Append(@, <<measureName, start, end>>)]
            IN logSlowEvent(s1, measureName, end - start, NoArgs, rand)
       ELSE c

getCount(s, markName) ==
    IF ~IsUndefined(s.counts) THEN GetOr(s.counts, markName, 0) ELSE 0

getDuration(s, measureName) ==
    IF ~IsUndefined(s.measures) THEN GetOr(s.measures, measureName, 0) ELSE 0

\* measures.forEach(...): a TypeError when measures is still undefined
forEachMeasure(s) ==
    IF IsUndefined(s.measures) THEN [s EXCEPT !.raised = TRUE] ELSE s

\* the (key, value) pairs forEachMeasure hands to its callback
forEachMeasureSeen(s) ==
    IF IsUndefined(s.measures) THEN {}
    ELSE {<<k, s.measures[k]>> : k \in DOMAIN s.measures}

\* enable forgetting to replace the counts and measures maps
enable_keepCounts(s) ==
    [s EXCEPT !.counts = IF IsUndefined(@) THEN createMap ELSE @,
              !.marks = createMap,
              !.measures = IF IsUndefined(@) THEN createMap ELSE @,
              !.enabled = TRUE, !.profilerStart = now]

\* enable forgetting to replace the marks map
enable_keepMarks(s) ==
    [s EXCEPT !.counts = createMap,
              !.marks = IF IsUndefined(@) THEN createMap ELSE @,
              !.measures = createMap, !.enabled = TRUE, !.profilerStart = now]

enable(s) ==
    [s EXCEPT !.counts = createMap, !.marks = createMap, !.measures = createMap,
              !.enabled = TRUE, !.profilerStart = now]

\* disable dropping the recorded data as well
disable_clearing(s) ==
    [s EXCEPT !.enabled = FALSE, !.counts = createMap, !.marks = createMap,
              !.measures = createMap]

disable(s) == [s EXCEPT !.enabled = FALSE]

increaseLogDepth(s) == [s EXCEPT !.logDepth = @ + 1]

\* decreaseLogDepth stopping at 0
decreaseLogDepth_clamped(s) ==
    [s EXCEPT !.logDepth = IF @ > 0 THEN @ - 1 ELSE 0]

decreaseLogDepth(s) == [s EXCEPT !.logDepth = @ - 1]

\* noop, the enter and the exit of nullTimer
noop(s) == s

NullTimer == "nullTimer"

\* createTimerIf with the branches exchanged
createTimerIf_inverted(condition, t) == IF condition THEN NullTimer ELSE t

\* createTimerIf(condition, ...): t stands for the Timer createTimer(...) returns
createTimerIf(condition, t) == IF condition THEN t ELSE NullTimer

\* enter counting only while the facility is enabled
enter_gated(s, t) ==
    IF s.enabled
    THEN LET s1 == [s EXCEPT !.enterCount[t] = @ + 1]
         IN IF s1.enterCount[t] = 1 THEN mark(s1, TimerDef(t).startMarkName) ELSE s1
    ELSE s

\* enter marking the start on every call
enter_always(s, t) ==
    mark([s EXCEPT !.enterCount[t] = @ + 1], TimerDef(t).startMarkName)

enter(s, t) ==
    LET s1 == [s EXCEPT !.enterCount[t] = @ + 1]
    IN IF s1.enterCount[t] = 1 THEN mark(s1, TimerDef(t).startMarkName) ELSE s1

\* exit recording whenever the count is not positive, and never failing
exit_recordsUnmatched(s, t, rand) ==
    LET d == TimerDef(t)
        s1 == [s EXCEPT !.enterCount[t] = @ - 1]
    IN IF s1.enterCount[t] <= 0
       THEN measure(mark(s1, d.endMarkName), d.measureName, d.startMarkName,
                    d.endMarkName, rand)
       ELSE s1

\* exit without the mark of the end
exit_noEndMark(s, t, rand) ==
    LET d == TimerDef(t)
        s1 == [s EXCEPT !.enterCount[t] = @ - 1]
    IN IF s1.enterCount[t] = 0
       THEN measure(s1, d.measureName, d.startMarkName, d.endMarkName, rand)
       ELSE IF s1.enterCount[t] < 0 THEN DebugFail(s1) ELSE s1

\* exit without the Debug.fail branch
exit_nofail(s, t, rand) ==
    LET d == TimerDef(t)
        s1 == [s EXCEPT !.enterCount[t] = @ - 1]
    IN IF s1.enterCount[t] = 0
       THEN measure(mark(s1, d.endMarkName), d.measureName, d.startMarkName,
                    d.endMarkName, rand)
       ELSE s1

exit(s, t, rand) ==
    LET d == TimerDef(t)
        s1 == [s EXCEPT !.enterCount[t] = @ - 1]
    IN IF s1.enterCount[t] = 0
       THEN measure(mark(s1, d.endMarkName), d.measureName, d.startMarkName,
                    d.endMarkName, rand)
       ELSE IF s1.enterCount[t] < 0 THEN DebugFail(s1) ELSE s1

\* ------------------------------------------------------ history and caps
Count(calls, entry) == Cardinality({i \in DOMAIN calls : calls[i] = entry})

RECURSIVE Total(_, _)
Total(f, keys) ==
    IF keys = {} THEN 0
    ELSE LET k == CHOOSE x \in keys : TRUE IN f[k] + Total(f, keys \ {k})

RECURSIVE SumAdded(_, _)
SumAdded(added, name) ==
    IF added = <<>> THEN 0
    ELSE LET h == Head(added)
         IN (IF h[1] = name THEN h[3] - h[2] ELSE 0) + SumAdded(Tail(added), name)

CountAdded(added, name) == Cardinality({i \in DOMAIN added : added[i][1] = name})

NoCalls == [k \in MarkNames \cup MeasureNames |-> 0]

Idle == [op |-> "init", arg |-> <<>>, calls |-> <<>>, hook |-> <<>>,
         added |-> <<>>, lines |-> 0, raised |-> FALSE, ret |-> 0, seen |-> {}]

\* The step from the current state to s, made by operation op(arg).
Commit(op, arg, s, ret, seen) ==
    LET ran == enabled /\ op # "enable"
        mc == [k \in DOMAIN NoCalls |->
                 IF op = "enable" THEN 0
                 ELSE markCalls[k] + (IF ran THEN Count(s.calls, <<"mark", k>>) ELSE 0)]
        ec == [k \in DOMAIN NoCalls |->
                 IF op = "enable" THEN 0 ELSE measureCalls[k] + CountAdded(s.added, k)]
    IN /\ Total(mc, DOMAIN NoCalls) <= MaxCount
       /\ Total(ec, DOMAIN NoCalls) <= MaxMeasures
       /\ Len(s.out) <= MaxOut
       /\ s.logDepth \in -MaxDepth .. MaxDepth
       /\ enabled' = s.enabled
       /\ profilerStart' = s.profilerStart
       /\ counts' = s.counts
       /\ marks' = s.marks
       /\ measures' = s.measures
       /\ logDepth' = s.logDepth
       /\ isFirstLogEvent' = s.isFirstLogEvent
       /\ enterCount' = s.enterCount
       /\ out' = s.out
       /\ last' = [op |-> op, arg |-> arg, calls |-> s.calls, hook |-> s.hook,
                   added |-> s.added, lines |-> Len(s.out) - Len(out),
                   raised |-> s.raised, ret |-> ret, seen |-> seen]
       /\ markCalls' = mc
       /\ measureCalls' = ec
       /\ deltaSum' = [k \in DOMAIN NoCalls |->
                         IF op = "enable" THEN 0
                         ELSE deltaSum[k] + SumAdded(s.added, k)]
       /\ netDepth' = netDepth + (IF op = "increaseLogDepth" THEN 1 ELSE 0)
                               - (IF op = "decreaseLogDepth" THEN 1 ELSE 0)
       /\ UNCHANGED <<now, profilerEvent, onProfilerEvent>>

TimerStep(op, t, s) ==
    /\ Commit(op, <<t>>, s, 0, {})
    /\ enters' = [enters EXCEPT ![t] = @ + (IF op = "enter" THEN 1 ELSE 0)]
    /\ exits' = [exits EXCEPT ![t] = @ + (IF op = "exit" THEN 1 ELSE 0)]
    /\ failed' = [failed EXCEPT ![t] = @ \/ s.raised]
    /\ enters'[t] <= MaxCalls /\ exits'[t] <= MaxCalls

Step(op, arg, s, ret, seen) ==
    Commit(op, arg, s, ret, seen) /\ UNCHANGED <<enters, exits, failed>>

\* Math.random() is drawn only by a call that writes a record.
Logs(s) == Len(s.out) > Len(out)
RandsIf(logs) == IF logs THEN Rands ELSE {0}

\* ---------------------------------------------------------------- actions
Init ==
    /\ now = 0
    /\ enabled = FALSE
    /\ profilerStart = 0
    /\ counts = Undefined
    /\ marks = Undefined
    /\ measures = Undefined
    /\ logDepth = 0
    /\ isFirstLogEvent = TRUE
    /\ onProfilerEvent \in BOOLEAN
    /\ profilerEvent = onProfilerEvent
    /\ enterCount = [t \in Timers |-> 0]
    /\ out = <<>>
    /\ last = Idle
    /\ markCalls = NoCalls
    /\ measureCalls = NoCalls
    /\ deltaSum = NoCalls
    /\ enters = [t \in Timers |-> 0]
    /\ exits = [t \in Timers |-> 0]
    /\ failed = [t \in Timers |-> FALSE]
    /\ netDepth = 0

\* timestamp() is non-decreasing; time passes between calls.
Tick ==
    \E d \in TickSteps :
        /\ now + d <= MaxTime
        /\ now' = now + d
        /\ last' = [Idle EXCEPT !.op = "tick"]
        /\ UNCHANGED <<enabled, profilerStart, counts, marks, measures, logDepth,
                       isFirstLogEvent, profilerEvent, enterCount, out, markCalls,
                       measureCalls, deltaSum, enters, exits, failed,
                       onProfilerEvent, netDepth>>

\* The host installs, removes, flags or unflags its callback after the module
\* was loaded.
HostSetsHook ==
    /\ onProfilerEvent' = ~onProfilerEvent
    /\ last' = [Idle EXCEPT !.op = "host"]
    /\ UNCHANGED <<now, enabled, profilerStart, counts, marks, measures, logDepth,
                   isFirstLogEvent, profilerEvent, enterCount, out, markCalls,
                   measureCalls, deltaSum, enters, exits, failed, netDepth>>

Enable == Step("enable", <<>>, enable(Cur), 0, {})

Disable == Step("disable", <<>>, disable(Cur), 0, {})

\* mark(name) with the name drawn from names
MarkOf(names) == \E name \in names : Step("mark", <<name>>, mark(Cur, name), 0, {})

Mark == MarkOf(MarkNames)

\* measure(name, start, end) with the mark names drawn from starts and ends
MeasureWith(starts, ends) ==
    \E name \in MeasureNames, start \in starts, end \in ends :
        \E rand \in RandsIf(Logs(measure(Cur, name, start, end, 0))) :
            Step("measure", <<name, start, end>>,
                 measure(Cur, name, start, end, rand), 0, {})

Measure == MeasureWith(OptMarkNames, OptMarkNames)

GetCount ==
    \E name \in MarkNames : Step("getCount", <<name>>, Cur, getCount(Cur, name), {})

GetDuration ==
    \E name \in MeasureNames :
        Step("getDuration", <<name>>, Cur, getDuration(Cur, name), {})

ForEachMeasure ==
    Step("forEachMeasure", <<>>, forEachMeasure(Cur), 0, forEachMeasureSeen(Cur))

IncreaseLogDepth == Step("increaseLogDepth", <<>>, increaseLogDepth(Cur), 0, {})

DecreaseLogDepth == Step("decreaseLogDepth", <<>>, decreaseLogDepth(Cur), 0, {})

\* logSlowEvent(name, d, args) with d and args drawn from durations and argss
LogSlowEventWith(durations, argss) ==
    \E name \in MeasureNames, d \in durations, args \in argss :
      \E rand \in RandsIf(Logs(logSlowEvent(Cur, name, d, args, 0))) :
        Step("logSlowEvent", <<name>>, logSlowEvent(Cur, name, d, args, rand), d, {})

LogSlowEvent == LogSlowEventWith(Durations, ArgsValues)

LogCompleteEvent ==
    \E name \in MeasureNames, d \in {SlowThreshold}, args \in ArgsValues :
        Step("logCompleteEvent", <<name>>, logCompleteEvent(Cur, name, d, args), d, {})

LogTraceEvent ==
    Step("logTraceEvent", <<>>, logTraceEvent(Cur, [name |-> "event"]), 0, {})

Enter(t) == TimerStep("enter", t, enter(Cur, t))

Exit(t) ==
    \E rand \in RandsIf(Logs(exit(Cur, t, 0))) :
        TimerStep("exit", t, exit(Cur, t, rand))

\* enter() and exit() of the Timer createTimerIf(false, ...) returned
IfFalseEnter ==
    \E t \in Timers :
        LET timer == createTimerIf(FALSE, t)
        IN Step("ifFalseEnter", <<t>>,
                IF timer = NullTimer THEN noop(Cur) ELSE enter(Cur, timer), 0, {})

IfFalseExit ==
    \E t \in Timers :
        LET timer == createTimerIf(FALSE, t)
        IN Step("ifFalseExit", <<t>>,
                IF timer = NullTimer THEN noop(Cur) ELSE exit(Cur, timer, 0), 0, {})

TimerEnter == \E t \in Timers : Enter(t)

TimerExit == \E t \in Timers : Exit(t)

\* The whole program: any caller, any operation.
Next ==
    \/ Tick
    \/ Enable
    \/ Disable
    \/ Mark
    \/ Measure
    \/ GetCount
    \/ GetDuration
    \/ ForEachMeasure
    \/ IncreaseLogDepth
    \/ DecreaseLogDepth
    \/ LogSlowEvent
    \/ LogCompleteEvent
    \/ LogTraceEvent
    \/ TimerEnter
    \/ TimerExit
    \/ IfFalseEnter
    \/ IfFalseExit
    \/ HostSetsHook

Spec == Init /\ [][Next]_vars

\* A host that records and queries, and creates no Timer.
NextFacility ==
    \/ Tick
    \/ Enable
    \/ Disable
    \/ Mark
    \/ Measure
    \/ GetCount
    \/ GetDuration
    \/ ForEachMeasure

SpecFacility == Init /\ [][NextFacility]_vars

\* A host with one Timer, which also marks directly.
NextTimer ==
    \/ Tick
    \/ Enable
    \/ Disable
    \/ Mark
    \/ Enter("t1")
    \/ Exit("t1")

SpecTimer == Init /\ [][NextTimer]_vars

\* A host with one Timer, which also marks the Timer's start and measures since
\* that mark directly, and switches the facility off and on.
NextDisable ==
    \/ Tick
    \/ Enable
    \/ Disable
    \/ MarkOf({"a"})
    \/ MeasureWith({"a"}, {NoName})
    \/ Enter("t1")
    \/ Exit("t1")

SpecDisable == Init /\ [][NextDisable]_vars

\* A host with two Timers that share their mark names.
NextTimers ==
    \/ Tick
    \/ Enable
    \/ TimerEnter
    \/ TimerExit

SpecTimers == Init /\ [][NextTimers]_vars

\* A host that writes trace events itself.
NextTrace ==
    \/ Enable
    \/ Disable
    \/ Mark
    \/ LogSlowEvent
    \/ LogCompleteEvent
    \/ LogTraceEvent

SpecTrace == Init /\ [][NextTrace]_vars

\* A host that measures since enable(), measure(name), and logs slow events
\* itself.
NextSlow ==
    \/ Tick
    \/ Enable
    \/ MeasureWith({NoName}, {NoName})
    \/ LogSlowEvent

SpecSlow == Init /\ [][NextSlow]_vars

\* A host that nests its log events.
NextDepth ==
    \/ Enable
    \/ Disable
    \/ IncreaseLogDepth
    \/ DecreaseLogDepth
    \/ LogCompleteEvent

SpecDepth == Init /\ [][NextDepth]_vars

\* A host whose conditional Timers were created with a false condition.
NextIfFalse ==
    \/ Tick
    \/ Enable
    \/ Disable
    \/ Mark
    \/ IfFalseEnter
    \/ IfFalseExit

SpecIfFalse == Init /\ [][NextIfFalse]_vars

\* A host that changes its profiler callback while the compiler runs.
NextHook ==
    \/ Tick
    \/ Enable
    \/ Disable
    \/ Mark
    \/ HostSetsHook

SpecHook == Init /\ [][NextHook]_vars

\* ------------------------------------------------------------- properties
Recorders == {"mark", "measure"}
Balance(t) == enters[t] - exits[t]
Duration(name) == getDuration(Cur, name)
NotMarkedSinceEnable(name) == name \in MarkNames /\ markCalls[name] = 0
\* the timestamps the documentation of measure prescribes
DocEnd(endMarkName) ==
    IF endMarkName # NoName /\ Has(marks, endMarkName) THEN marks[endMarkName] ELSE now
DocStart(startMarkName) ==
    IF startMarkName # NoName /\ Has(marks, startMarkName)
    THEN marks[startMarkName] ELSE profilerStart

\* C1: while the facility is disabled, a call of mark or measure leaves marks,
\* counts and measures unchanged, writes no trace line and does not invoke the
\* profiler hook.
C1_DisabledRecordingIsNoOp ==
    [][(~enabled /\ last'.op \in Recorders) =>
          /\ marks' = marks
          /\ counts' = counts
          /\ measures' = measures
          /\ out' = out
          /\ last'.lines = 0
          /\ last'.hook = <<>>]_vars

\* a mark of a name that has data, after disable(), with the host's hook installed
C1_Witness ==
    /\ last.op = "mark"
    /\ ~enabled
    /\ profilerEvent
    /\ ~IsUndefined(counts)
    /\ Has(counts, last.arg[1])

\* C2: enter() calls mark(startMarkName) exactly when it takes the Timer from 0
\* to 1 outstanding enters; exit() calls mark(endMarkName) and then
\* measure(measureName, startMarkName, endMarkName) exactly when it takes the
\* Timer to 0 outstanding enters; every other enter/exit calls neither.
C2_TimerRecordsAtOutermost ==
    /\ last.op = "enter" =>
          LET t == last.arg[1]
          IN last.calls = IF Balance(t) = 1
                          THEN << <<"mark", TimerDef(t).startMarkName>> >>
                          ELSE <<>>
    /\ last.op = "exit" =>
          LET t == last.arg[1]
              d == TimerDef(t)
          IN last.calls = IF Balance(t) = 0
                          THEN << <<"mark", d.endMarkName>>,
                                  <<"measure", d.measureName, d.startMarkName,
                                    d.endMarkName>> >>
                          ELSE <<>>

\* enter(); enter(); exit(); exit() while enabled: the second exit records both
C2_Witness ==
    /\ last.op = "exit"
    /\ enabled
    /\ enters["t1"] = 2
    /\ exits["t1"] = 2
    /\ Len(last.calls) = 2
    /\ last.added # <<>>

\* C3: an exit() with no matching enter (as many exits before it as enters)
\* raises the fatal failure and calls neither mark nor measure.
C3_UnmatchedExitFails ==
    (last.op = "exit" /\ exits[last.arg[1]] - 1 = enters[last.arg[1]]) =>
        /\ last.raised
        /\ last.calls = <<>>
        /\ last.added = <<>>
        /\ last.lines = 0

\* a second, unmatched exit after enter(); exit() while enabled
C3_Witness ==
    /\ last.op = "exit"
    /\ enabled
    /\ enters["t1"] = 1
    /\ exits["t1"] = 2
    /\ last.raised

\* C4 as stated: a Timer's enter count is never negative, the state in which
\* the fatal failure is raised included.
C4_Original == \A t \in Timers : enterCount[t] >= 0

\* C4 as amended: a Timer's enter count is never negative as long as the Timer
\* has raised no fatal failure; the exit() that raises it leaves the count
\* negative.
C4_NonNegativeUntilFailure ==
    /\ \A t \in Timers : ~failed[t] => enterCount[t] >= 0
    /\ (last.op = "exit" /\ last.raised) => enterCount[last.arg[1]] < 0

\* a balanced enter(); enter(); exit(); exit() with no failure
C4_Witness ==
    /\ last.op = "exit"
    /\ ~failed["t1"]
    /\ exits["t1"] = 2
    /\ enterCount["t1"] = 0

\* C5 as stated: measure while enabled takes as end the timestamp recorded
\* under endMarkName when supplied and recorded (0 included), else the current
\* time, and as start the one recorded under startMarkName, else profilerStart.
C5_Original ==
    (last.op = "measure" /\ enabled) =>
        last.added = << <<last.arg[1], DocStart(last.arg[2]), DocEnd(last.arg[3])>> >>

\* C6 as stated: while enabled, with no enable() in between, getDuration(name)
\* never decreases from one state to the next.
C6_Original ==
    [][(enabled /\ enabled' /\ last'.op # "enable") =>
          \A name \in MeasureNames : Duration(name)' >= Duration(name)]_vars

\* C6 as amended: while enabled, with no enable() in between, getDuration(name)
\* never decreases in a step other than a measure call whose resolved end
\* timestamp is earlier than its resolved start timestamp.
C6_NonDecreasingUnlessEndBeforeStart ==
    [][(enabled /\ enabled' /\ last'.op # "enable") =>
          \A name \in MeasureNames :
              \/ Duration(name)' >= Duration(name)
              \/ \E i \in DOMAIN last'.added :
                    /\ last'.added[i][1] = name
                    /\ last'.added[i][3] < last'.added[i][2]]_vars

\* a second measure whose end is later than its start has raised the total
C6_Witness ==
    /\ last.op = "measure"
    /\ enabled
    /\ measureCalls["m"] = 2
    /\ last.added # <<>>
    /\ last.added[1][3] > last.added[1][2]
    /\ Duration("m") > last.added[1][3] - last.added[1][2]

\* C7 as stated: no operation other than a Timer's exit() raises an error, in
\* any reachable state, before the first enable() included.
C7_Original == last.raised => last.op = "exit"

\* C8: getCount(m) is the number of mark(m) calls, direct or made by a Timer,
\* that ran while enabled since the most recent enable(); each such call stores
\* the current time as the timestamp of m.
C8_CountIsNumberOfMarks ==
    /\ \A m \in MarkNames : getCount(Cur, m) = markCalls[m]
    /\ enabled =>
          \A i \in DOMAIN last.calls :
              last.calls[i][1] = "mark" =>
                  /\ Has(marks, last.calls[i][2])
                  /\ marks[last.calls[i][2]] = now

\* a direct mark("a") and then a Timer's enter() marking "a" again, later
C8_Witness ==
    /\ last.op = "enter"
    /\ enabled
    /\ getCount(Cur, "a") = 2
    /\ now > profilerStart
    /\ marks["a"] = now

\* C9: getDuration(name) is the sum of (end - start) over the measure(name)
\* calls that ran while enabled since the most recent enable().
C9_DurationIsSumOfDeltas ==
    \A name \in MeasureNames : getDuration(Cur, name) = deltaSum[name]

\* two measures of "m" with different non-zero deltas
C9_Witness ==
    /\ last.op = "measure"
    /\ measureCalls["m"] = 2
    /\ last.added # <<>>
    /\ LET d == last.added[1][3] - last.added[1][2]
       IN d # 0 /\ Duration("m") - d # 0 /\ Duration("m") - d # d

\* C10: right after enable() the facility is enabled and marks, counts and
\* measures are empty, so getCount and getDuration give 0 for every name; a
\* measure naming a mark not recorded since this enable() takes it as not
\* recorded (end: the current time, start: profilerStart).
C10_EnableResets ==
    /\ last.op = "enable" =>
          /\ enabled
          /\ marks = createMap /\ counts = createMap /\ measures = createMap
          /\ profilerStart = now
          /\ \A m \in MarkNames : getCount(Cur, m) = 0
          /\ \A name \in MeasureNames : getDuration(Cur, name) = 0
    /\ (last.op = "measure" /\ enabled) =>
          /\ (NotMarkedSinceEnable(last.arg[3]) => last.added[1][3] = now)
          /\ (NotMarkedSinceEnable(last.arg[2]) => last.added[1][2] = profilerStart)

\* enable() called again after a measure was recorded (and logged as slow)
C10_Witness ==
    /\ last.op = "enable"
    /\ out # <<>>
    /\ now > 0

\* C11: disable() changes only the enabled flag, and from a disabled state no
\* step other than enable() changes what getCount, getDuration and
\* forEachMeasure give.
C11_DisableKeepsData ==
    [][/\ last'.op = "disable" =>
            /\ ~enabled'
            /\ UNCHANGED <<profilerStart, counts, marks, measures, logDepth,
                           isFirstLogEvent, enterCount, out>>
       /\ (~enabled /\ last'.op # "enable") =>
            /\ \A m \in MarkNames : getCount(Cur, m)' = getCount(Cur, m)
            /\ \A name \in MeasureNames : Duration(name)' = Duration(name)
            /\ forEachMeasureSeen(Cur)' = forEachMeasureSeen(Cur)]_vars

\* an outermost exit() of the Timer after disable(), with a measure on record
C11_Witness ==
    /\ last.op = "exit"
    /\ ~enabled
    /\ Len(last.calls) = 2
    /\ Duration("m") > 0
    /\ getCount(Cur, "b") > 0

LogOps == {"logTraceEvent", "logCompleteEvent", "logSlowEvent"}
\* the output is empty, or one "[" line followed by record lines only
Framed(o) ==
    \/ o = <<>>
    \/ /\ Len(o) >= 2
       /\ o[1] = [line |-> "["]
       /\ \A i \in 2 .. Len(o) : o[i].line = "record"
\* the logTraceEvent calls a step makes: one by logTraceEvent and by
\* logCompleteEvent, one by logSlowEvent and by measure above the threshold
TraceCalls(l) ==
    IF l.op \in {"logTraceEvent", "logCompleteEvent"} THEN 1
    ELSE IF l.op = "logSlowEvent" THEN (IF l.ret > SlowThreshold THEN 1 ELSE 0)
    ELSE Cardinality({i \in DOMAIN l.added :
                         l.added[i][3] - l.added[i][2] > SlowThreshold})
\* the lines a step writing n records adds to the output o
LinesFor(n, o) == IF n = 0 THEN 0 ELSE n + (IF o = <<>> THEN 1 ELSE 0)

\* C12: the trace output is one "[" line followed by one record line per
\* logTraceEvent call, in call order; the bracket is written once, right
\* before the first record, whatever enable()/disable() calls come between,
\* and nothing else is ever written.
C12_TraceFraming ==
    [][/\ Framed(out')
       /\ Len(out') = Len(out) + LinesFor(TraceCalls(last'), out)
       /\ SubSeq(out', 1, Len(out)) = out
       /\ last'.op = "logTraceEvent" =>
             out'[Len(out')] = [line |-> "record", data |-> [name |-> "event"]]
       /\ isFirstLogEvent' = (out' = <<>>)]_vars

\* a second record, written after enable() and disable()
C12_Witness ==
    /\ last.op = "logTraceEvent"
    /\ Len(out) = 3
    /\ ~enabled
    /\ ~IsUndefined(marks)

\* the record lines the last step wrote (a "[" it wrote is not one)
RecordsWritten ==
    last.lines - (IF last.lines > 0 /\ Len(out) = last.lines THEN 1 ELSE 0)

\* C13: logSlowEvent(name, d), called directly or by measure with its delta,
\* writes exactly one record when d > 10 and none when d <= 10.
C13_SlowThreshold ==
    /\ last.op = "logSlowEvent" =>
          RecordsWritten = IF last.ret > SlowThreshold THEN 1 ELSE 0
    /\ (last.op = "measure" /\ last.added # <<>>) =>
          RecordsWritten =
              IF last.added[1][3] - last.added[1][2] > SlowThreshold THEN 1 ELSE 0
    /\ (last.op = "measure" /\ last.added = <<>>) => RecordsWritten = 0

\* a measure of more than 10 writes one record after an earlier record
C13_Witness ==
    /\ last.op = "measure"
    /\ last.added # <<>>
    /\ last.added[1][3] - last.added[1][2] > SlowThreshold
    /\ last.lines = 1
    /\ Len(out) = 3

\* C14: createTimerIf(false, ...) gives nullTimer, and its enter() and exit()
\* change nothing, write nothing and never fail, enabled or not.
C14_NullTimerIsNoOp ==
    [][last'.op \in {"ifFalseEnter", "ifFalseExit"} =>
          /\ \A t \in Timers : createTimerIf(FALSE, t) = NullTimer
          /\ UNCHANGED <<enabled, profilerStart, counts, marks, measures, logDepth,
                         isFirstLogEvent, enterCount, out>>
          /\ last'.calls = <<>>
          /\ last'.hook = <<>>
          /\ ~last'.raised]_vars

\* an exit() of nullTimer while enabled, with a mark on record
C14_Witness ==
    /\ last.op = "ifFalseExit"
    /\ enabled
    /\ getCount(Cur, "a") > 0
    /\ profilerEvent

\* C15 as stated: a mark(name) made while enabled invokes the host's callback
\* once with name whenever the callback is present and active at that call,
\* also when it became so after the module was loaded.
C15_Original ==
    (last.op = "mark" /\ enabled /\ onProfilerEvent) => last.hook = <<last.arg[1]>>

\* C15 as amended: a mark(name) made while enabled invokes the callback once
\* with name exactly when the callback was present and active when the module
\* was loaded (profilerEvent is bound once); what the host does to it later
\* changes nothing.
C15_HookBoundAtLoad ==
    (last.op = "mark" /\ enabled) =>
        last.hook = IF profilerEvent THEN <<last.arg[1]>> ELSE <<>>

\* the callback, active at load and switched off since, is still invoked
C15_Witness ==
    /\ last.op = "mark"
    /\ enabled
    /\ profilerEvent
    /\ ~onProfilerEvent
    /\ last.hook = <<"a">>

\* C16: getCount(name) and getDuration(name) give 0 for a name not marked
\* (measured) since the most recent enable(), and for every name before the
\* first enable(); neither changes any state of the facility.
C16_QueriesDefaultToZero ==
    [][/\ \A m \in MarkNames : markCalls'[m] = 0 => getCount(Cur, m)' = 0
       /\ \A name \in MeasureNames : measureCalls'[name] = 0 => Duration(name)' = 0
       /\ last'.op = "getCount" => last'.ret = getCount(Cur, last'.arg[1])
       /\ last'.op = "getDuration" => last'.ret = Duration(last'.arg[1])
       /\ last'.op \in {"getCount", "getDuration"} =>
             /\ ~last'.raised
             /\ UNCHANGED <<now, enabled, profilerStart, counts, marks, measures,
                            logDepth, isFirstLogEvent, enterCount, out>>]_vars

\* getDuration gives 0 after enable() for a name measured (and logged) before
C16_Witness ==
    /\ last.op = "getDuration"
    /\ last.ret = 0
    /\ enabled
    /\ out # <<>>
    /\ measureCalls["m"] = 0

\* C17: a record written by logCompleteEvent carries as tid the number of
\* increaseLogDepth() calls minus the number of decreaseLogDepth() calls so
\* far, whatever enable()/disable() calls were made; the depth goes below 0
\* without an error.
C17_TidIsLogDepth ==
    /\ logDepth = netDepth
    /\ last.op = "logCompleteEvent" => out[Len(out)].data.tid = netDepth
    /\ last.op \in {"increaseLogDepth", "decreaseLogDepth", "logCompleteEvent"} =>
          ~last.raised

\* a record with tid -1, written after enable() and disable()
C17_Witness ==
    /\ last.op = "logCompleteEvent"
    /\ out[Len(out)].data.tid = 0 - 1
    /\ ~enabled
    /\ ~IsUndefined(marks)

C19_StaleEnterMeasuresFromProfilerStart ==
    /\ \A t \in Timers : enterCount[t] = Balance(t)
    /\ (/\ last.op = "exit"
        /\ enabled
        /\ Balance(last.arg[1]) = 0
        /\ markCalls[TimerDef(last.arg[1]).startMarkName] = 0) =>
          last.added = << <<TimerDef(last.arg[1]).measureName, profilerStart, now>> >>

\* enter() before the most recent enable(), exit() later while enabled
C19_Witness ==
    /\ last.op = "exit"
    /\ enabled
    /\ ~failed["t1"]
    /\ Balance("t1") = 0
    /\ markCalls["a"] = 0
    /\ last.added # <<>>
    /\ now > profilerStart
    /\ profilerStart > 0

\* C20: logTraceEvent, logCompleteEvent and logSlowEvent above 10 write their
\* record (and the "[" before the first) whatever the enabled flag is, and
\* change none of marks, counts and measures.
C20_TraceNotGatedOnEnabled ==
    [][last'.op \in LogOps =>
          /\ last'.lines = LinesFor(TraceCalls(last'), out)
          /\ marks' = marks
          /\ counts' = counts
          /\ measures' = measures]_vars

\* the first record, with its "[", written before any enable()
C20_Witness ==
    /\ last.op = "logSlowEvent"
    /\ IsUndefined(marks)
    /\ last.lines = 2

====
